---- MODULE Spec2Model ----
(***************************************************************************)
(* A model of coinut_api.py: the CoinutAPI REST client.                    *)
(*                                                                         *)
(* Python values are modelled as follows.                                  *)
(*   None / a value     <<>> / <<v>>   (an optional argument or field)     *)
(*   dict               a sequence of <<key, value>> pairs, keys distinct  *)
(*   big integers       <<hi, lo>>, 16-bit limbs (4294967290 exceeds the   *)
(*                      integers TLC computes with)                        *)
(*   float arguments    a natural number of units of 10^-9                 *)
(*   str of digits      a sequence of one-character strings                *)
(***************************************************************************)
EXTENDS Integers, Sequences, FiniteSets, TLC

\* ------------------------------------------------------------------ values

None == <<>>
Some(v) == <<v>>

\* Big integers as <<hi, lo>>: the value is hi * 65536 + lo.
Big(hi, lo) == <<hi, lo>>
BigLeq(a, b) == a[1] < b[1] \/ (a[1] = b[1] /\ a[2] <= b[2])

\* random.randint(1, 4294967290): the bounds of both call sites.
RandLo == Big(0, 1)
RandHiHi == 65535
RandHiLo == 65530
RandHi == Big(RandHiHi, RandHiLo)

\* random.randint(a, b) draws an integer N with a <= N <= b; the model draws
\* among the two ends of the range.
randint_from_zero(a, b) == {Big(0, 0), a, b}
randint(a, b) == {a, b}

\* ------------------------------------------------------------------- dicts

Keys(d) == {d[i][1] : i \in 1..Len(d)}
HasKey(d, k) == \E i \in 1..Len(d) : d[i][1] = k
Get(d, k) == d[CHOOSE i \in 1..Len(d) : d[i][1] = k][2]

\* d[k] = v: replaces the value of an existing key, else inserts the key.
SetItem(d, k, v) ==
    IF HasKey(d, k)
    THEN [i \in 1..Len(d) |-> IF d[i][1] = k THEN <<k, v>> ELSE d[i]]
    ELSE Append(d, <<k, v>>)

\* ---------------------------------------------------------- json and hmac

\* json.dumps(content): the text of the object, as tokens; a key is followed
\* by ":" and its value, members are separated by ",".
RECURSIVE Members(_)
Members(d) ==
    IF Len(d) = 0 THEN <<>>
    ELSE IF Len(d) = 1 THEN <<d[1][1], ":", d[1][2]>>
    ELSE <<d[1][1], ":", d[1][2], ",">> \o Members(Tail(d))

json_dumps(d) == <<"{">> \o Members(d) \o <<"}">>

\* Reading a serialized body back: the positions of its keys, and the values
\* of the members named k.
KeyPositions(body) == {i \in 2..(Len(body) - 1) : i % 4 = 2}
FieldValues(body, k) == {body[i + 2] : i \in {j \in KeyPositions(body) : body[j] = k}}
FieldCount(body, k) == Cardinality({j \in KeyPositions(body) : body[j] = k})

\* hmac.new(key, msg, sha256).hexdigest(): the digest as a term over its key
\* and message (distinct inputs give distinct digests).
hmac_new(key, msg) == [alg |-> "HMAC-SHA256", key |-> key, msg |-> msg]

\* --------------------------------------------------------------- instances

Users == {None, Some("alice")}
ApiKeys == {None, Some("k3y")}

\* CoinutAPI.__init__
CoinutAPI(user, api_key) == [user |-> user, api_key |-> api_key]

\* The condition of request's if statement.
HasCredentialsEither(self) == self.api_key # None \/ self.user # None
HasCredentials(self) == self.api_key # None /\ self.user # None

\* The call of hmac.new in request: keyed by api_key, over content.
SignatureSwapped(self, content) == hmac_new(content, self.api_key)
Signature(self, content) == hmac_new(self.api_key, content)

\* The headers request builds.
Headers(self, content) ==
    IF HasCredentials(self)
    THEN << <<"X-USER", self.user>>, <<"X-SIGNATURE", Signature(self, content)>> >>
    ELSE <<>>

\* ------------------------------------------------------------- the server

ApiUrl == "https://api.coinut.com"

\* A transport failure of requests.post, and a response whose body is no JSON.
TransportFailure == [kind |-> "transport"]
NotJson == [kind |-> "nonjson"]
JsonResponse(payload) == [kind |-> "json", payload |-> payload]

\* The payload of the server's success response to each request.
SpotInstruments ==
    [LTCBTC |-> << [base |-> "LTC", quote |-> "BTC", inst_id |-> 1, decimal_places |-> 5] >>,
     BTCUSDT |-> << [base |-> "BTC", quote |-> "USDT", inst_id |-> 490590, decimal_places |-> 2] >>]

SuccessPayload(api) ==
    CASE api = "user_balance" ->
           [status |-> <<"OK">>, BTC |-> "63.51457338", USDT |-> "18775.86604171"]
      [] api = "inst_list" -> [status |-> <<"OK">>, SPOT |-> SpotInstruments]
      [] api = "inst_tick" -> [status |-> <<"OK">>, last |-> "0.01253000", inst_id |-> 1]
      [] api = "inst_order_book" ->
           [status |-> <<"OK">>, buy |-> <<>>,
            sell |-> << [count |-> 1, price |-> "0.01311", qty |-> "0.00200000"] >>]
      [] api = "user_open_orders" ->
           [status |-> <<"OK">>,
            orders |-> << [order_id |-> 1120194747, price |-> "0.01251000", side |-> "BUY"] >>]
      [] api = "new_order" -> [status |-> <<"OK">>, reply |-> "order_accepted"]
      [] api = "new_orders" -> [status |-> <<"OK">>, reply |-> "order_accepted"]
      [] api = "cancel_order" -> [status |-> <<"OK">>, reply |-> "cancel_order"]
      [] OTHER -> [status |-> <<"OK">>, reply |-> "cancel_orders"]

\* A business error: a well-formed payload holding only status/error fields.
BusinessError == [status |-> <<"ERROR">>, error |-> "INVALID_SIGNATURE"]

\* How the exchange of one POST may end.
Outcomes(api) ==
    {TransportFailure, NotJson, JsonResponse(SuccessPayload(api)), JsonResponse(BusinessError)}

\* ------------------------------------------------- results and exceptions

Raise(e) == [exc |-> e]
Value(v) == [exc |-> "none", val |-> v]
Raised(r) == r.exc # "none"

\* r[k] on a dict, r[0] on a list: where r is the outcome of the expression
\* subscripted, an exception of which propagates.
Subscript(r, k) ==
    IF Raised(r) THEN r
    ELSE IF k \in DOMAIN r.val THEN Value(r.val[k]) ELSE Raise("KeyError")

First(r) ==
    IF Raised(r) THEN r
    ELSE IF Len(r.val) > 0 THEN Value(r.val[1]) ELSE Raise("IndexError")

\* What request gives its caller: requests.post raises on a transport
\* failure, response.json() raises on a body that is no JSON.
request_result(resp) ==
    CASE resp.kind = "transport" -> Raise("RequestException")
      [] resp.kind = "nonjson" -> Raise("ValueError")
      [] OTHER -> Value(resp.payload)

\* get_spot_instruments, after its request
get_spot_instruments_whole(pair, result) == Subscript(result, "SPOT")

get_spot_instruments_result(pair, result) ==
    IF pair # None
    THEN First(Subscript(Subscript(result, "SPOT"), pair[1]))
    ELSE Subscript(result, "SPOT")

\* get_spot_inst_id, after get_spot_instruments
get_spot_inst_id_result(pair, result) ==
    Subscript(get_spot_instruments_result(pair, result), "inst_id")

\* get_open_orders, after its request
get_open_orders_result(result) == Subscript(result, "orders")

\* What each public operation returns, given what request returned to it.
OperationResult(op, args, result) ==
    CASE op = "get_spot_instruments" -> get_spot_instruments_result(args.pair, result)
      [] op = "get_spot_inst_id" -> get_spot_inst_id_result(args.pair, result)
      [] op = "get_open_orders" -> get_open_orders_result(result)
      [] OTHER -> result

\* ------------------------------------------------------- "%.8f" % number

\* The digits "%.8f" writes after the decimal point.
FracDigits == 8

\* A float argument is a natural number of units of 10^-InputDigits.
InputDigits == 9

RECURSIVE Pow10(_)
Pow10(k) == IF k = 0 THEN 1 ELSE 10 * Pow10(k - 1)

DigitChars == <<"0", "1", "2", "3", "4", "5", "6", "7", "8", "9">>

RECURSIVE Digits(_)
Digits(n) ==
    IF n < 10 THEN <<DigitChars[n + 1]>>
    ELSE Digits(n \div 10) \o <<DigitChars[(n % 10) + 1]>>

RECURSIVE FixedDigits(_, _)
FixedDigits(m, k) ==
    IF k = 0 THEN <<>>
    ELSE FixedDigits(m \div 10, k - 1) \o <<DigitChars[(m % 10) + 1]>>

\* The number rounded to `digits` places, in units of 10^-digits. The float
\* nearest to a decimal that lies halfway between two such values lies to
\* one side of it or the other ("%.8f" % 5e-9 is 0.00000001 and
\* "%.8f" % 1.5e-8 is 0.00000001), so a halfway case may go either way.
RoundedTo(n, digits) ==
    LET u == Pow10(InputDigits - digits)
        q == n \div u
        r == n % u
    IN  IF 2 * r < u THEN {q}
        ELSE IF 2 * r > u THEN {q + 1}
        ELSE {q, q + 1}

\* m units of 10^-digits written in fixed-point notation.
FixedPoint(m, digits) ==
    Digits(m \div Pow10(digits)) \o <<".">> \o FixedDigits(m % Pow10(digits), digits)

PercentF(n, digits) == {FixedPoint(m, digits) : m \in RoundedTo(n, digits)}

\* "%.8f" % n: the strings the format may give.
PercentDot6f(n) == PercentF(n, FracDigits - 2)
PercentDot8f(n) == PercentF(n, FracDigits)

\* --------------------------------------------------------- create_new_order

\* The dicts create_new_order may return (one per outcome of the formats and
\* of random.randint).
OrderDict(inst_id, side, q, p, c) ==
    LET base == << <<"inst_id", inst_id>>, <<"side", side>>, <<"qty", q>> >>
        priced == IF p # None THEN SetItem(base, "price", p[1]) ELSE base
    IN  SetItem(priced, "client_ord_id", c)

create_new_order_if_price(inst_id, side, qty, price, client_ord_id) ==
    {OrderDict(inst_id, side, q, p, c) :
        q \in PercentDot8f(qty),
        p \in (IF price # None /\ price[1] # 0
               THEN {Some(x) : x \in PercentDot8f(price[1])} ELSE {None}),
        c \in (IF client_ord_id # None THEN {client_ord_id[1]}
               ELSE randint(RandLo, RandHi))}

create_new_order_dicts(inst_id, side, qty, price, client_ord_id) ==
    {OrderDict(inst_id, side, q, p, c) :
        q \in PercentDot8f(qty),
        p \in (IF price # None
               THEN {Some(x) : x \in PercentDot8f(price[1])} ELSE {None}),
        c \in (IF client_ord_id # None THEN {client_ord_id[1]}
               ELSE randint(RandLo, RandHi))}

\* ------------------------------------------------------------ the arguments

MaxBatch == 2

InstIds == {1}
Pairs == {"LTCBTC", "BTCUSDT"}
Sides == {"BUY", "sell"}
Quantities == {1, 5, 100, 13000000}
Prices == {None, Some(0), Some(1), Some(13000000)}
ClientOrdIds == {None, Some(Big(0, 0)), Some(Big(9137, 45483))}
OrderIds == {3355, 1345}

BoundedSeq(S, n) == UNION {[1..k -> S] : k \in 0..n}

\* Orders as create_new_order builds them, for the batch of submit_new_orders.
SampleOrders ==
    create_new_order_dicts(1, "BUY", 100, Some(13000000), Some(Big(0, 7)))
    \cup create_new_order_dicts(1, "SELL", 13000000, None, Some(Big(0, 8)))

\* ----------------------------------------------------------------- threads

\* The threads that call the client; MainThread is the caller of a program
\* with a single thread.
Threads == {"main", "worker"}
MainThread == "main"

VARIABLES
    clients,    \* the CoinutAPI instances constructed
    defaults,   \* request.__defaults__[0]: the dict that is content's default
    frame       \* per thread: the frame of its current (or last) public call

vars == <<clients, defaults, frame>>

NoResp == [kind |-> "none"]
NoRet == [exc |-> "pending"]

IdleFrame ==
    [pc |-> "idle", op |-> "none", self |-> CoinutAPI(None, None), args |-> <<>>,
     api |-> "none", content |-> "none", own |-> <<>>, nonce |-> None,
     body |-> <<>>, headers |-> <<>>, posts |-> 0, sent |-> None,
     resp |-> NoResp, ret |-> NoRet]

Init ==
    /\ clients = {CoinutAPI(u, k) : u \in Users, k \in ApiKeys}
    /\ defaults = <<>>
    /\ frame = [t \in Threads |-> IdleFrame]

\* A thread may start a public call when it is in no call.
CanCall(t) == frame[t].pc = "idle"

\* The dict the frame's content variable refers to.
ContentOf(t) == IF frame[t].content = "default" THEN defaults ELSE frame[t].own

\* Entering request(api, content) from the public operation op.
Enter(t, self, op, args, api, content, own) ==
    frame' = [frame EXCEPT ![t] =
        [IdleFrame EXCEPT !.pc = "entered", !.op = op, !.self = self, !.args = args,
                          !.api = api, !.content = content, !.own = own]]

\* ------------------------------------------------------- public operations

get_balance(t) ==
    /\ CanCall(t)
    /\ \E self \in clients :
         Enter(t, self, "get_balance", <<>>, "user_balance", "default", <<>>)
    /\ UNCHANGED <<clients, defaults>>

get_inst_tick(t) ==
    /\ CanCall(t)
    /\ \E self \in clients, inst_id \in InstIds :
         Enter(t, self, "get_inst_tick", [inst_id |-> inst_id], "inst_tick", "own",
               << <<"inst_id", inst_id>> >>)
    /\ UNCHANGED <<clients, defaults>>

get_spot_instruments(t) ==
    /\ CanCall(t)
    /\ \E self \in clients, pair \in {None} \cup {Some(x) : x \in Pairs} :
         Enter(t, self, "get_spot_instruments", [pair |-> pair], "inst_list", "own",
               << <<"sec_type", "SPOT">> >>)
    /\ UNCHANGED <<clients, defaults>>

get_spot_inst_id(t) ==
    /\ CanCall(t)
    /\ \E self \in clients, pair \in Pairs :
         Enter(t, self, "get_spot_inst_id", [pair |-> Some(pair)], "inst_list", "own",
               << <<"sec_type", "SPOT">> >>)
    /\ UNCHANGED <<clients, defaults>>

get_orderbook(t) ==
    /\ CanCall(t)
    /\ \E self \in clients, inst_id \in InstIds :
         Enter(t, self, "get_orderbook", [inst_id |-> inst_id], "inst_order_book", "own",
               << <<"inst_id", inst_id>> >>)
    /\ UNCHANGED <<clients, defaults>>

get_open_orders(t) ==
    /\ CanCall(t)
    /\ \E self \in clients, inst_id \in InstIds :
         Enter(t, self, "get_open_orders", [inst_id |-> inst_id], "user_open_orders", "own",
               << <<"inst_id", inst_id>> >>)
    /\ UNCHANGED <<clients, defaults>>

\* The builder: no request is made, the call returns the order.
create_new_order(t) ==
    /\ CanCall(t)
    /\ \E self \in clients, inst_id \in InstIds, side \in Sides, qty \in Quantities,
          price \in Prices, client_ord_id \in ClientOrdIds :
         \E order \in create_new_order_dicts(inst_id, side, qty, price, client_ord_id) :
           frame' = [frame EXCEPT ![t] =
               [IdleFrame EXCEPT !.pc = "returned", !.op = "create_new_order", !.self = self,
                                 !.args = [inst_id |-> inst_id, side |-> side, qty |-> qty,
                                           price |-> price, client_ord_id |-> client_ord_id],
                                 !.ret = Value(order)]]
    /\ UNCHANGED <<clients, defaults>>

submit_new_order(t) ==
    /\ CanCall(t)
    /\ \E self \in clients, inst_id \in InstIds, side \in Sides, qty \in Quantities,
          price \in Prices, client_ord_id \in ClientOrdIds :
         \E order \in create_new_order_dicts(inst_id, side, qty, price, client_ord_id) :
           Enter(t, self, "submit_new_order",
                 [inst_id |-> inst_id, side |-> side, qty |-> qty,
                  price |-> price, client_ord_id |-> client_ord_id],
                 "new_order", "own", order)
    /\ UNCHANGED <<clients, defaults>>

submit_new_orders(t) ==
    /\ CanCall(t)
    /\ \E self \in clients, ords \in BoundedSeq(SampleOrders, MaxBatch) :
         Enter(t, self, "submit_new_orders", [ords |-> ords], "new_orders", "own",
               << <<"orders", ords>> >>)
    /\ UNCHANGED <<clients, defaults>>

cancel_order(t) ==
    /\ CanCall(t)
    /\ \E self \in clients, inst_id \in InstIds, order_id \in OrderIds :
         Enter(t, self, "cancel_order", [inst_id |-> inst_id, order_id |-> order_id],
               "cancel_order", "own",
               << <<"inst_id", inst_id>>, <<"order_id", order_id>> >>)
    /\ UNCHANGED <<clients, defaults>>

cancel_orders(t) ==
    /\ CanCall(t)
    /\ \E self \in clients, inst_id \in InstIds, order_ids \in BoundedSeq(OrderIds, MaxBatch) :
         LET ords == [i \in 1..Len(order_ids) |->
                        << <<"inst_id", inst_id>>, <<"order_id", order_ids[i]>> >>]
         IN  Enter(t, self, "cancel_orders", [inst_id |-> inst_id, order_ids |-> order_ids],
                   "cancel_orders", "own", << <<"entries", ords>> >>)
    /\ UNCHANGED <<clients, defaults>>

\* ------------------------------------------------------------------ request

\* A write through the frame's content reference.
WriteContent(t, k, v, pc2, f) ==
    IF frame[t].content = "default"
    THEN /\ defaults' = SetItem(defaults, k, v)
         /\ frame' = [frame EXCEPT ![t] = [f EXCEPT !.pc = pc2]]
    ELSE /\ defaults' = defaults
         /\ frame' = [frame EXCEPT ![t] = [f EXCEPT !.pc = pc2, !.own = SetItem(f.own, k, v)]]

\* content["request"] = api
request_set_api(t) ==
    /\ frame[t].pc = "entered"
    /\ WriteContent(t, "request", frame[t].api, "api_set", frame[t])
    /\ UNCHANGED clients

\* content["nonce"] = random.randint(1, 4294967290)
request_set_nonce(t) ==
    /\ frame[t].pc = "api_set"
    /\ \E n \in randint(RandLo, RandHi) :
         WriteContent(t, "nonce", n, "nonce_set", [frame[t] EXCEPT !.nonce = Some(n)])
    /\ UNCHANGED clients

\* content = json.dumps(content): from here on content is the string.
request_dumps(t) ==
    /\ frame[t].pc = "nonce_set"
    /\ frame' = [frame EXCEPT ![t].pc = "dumped", ![t].body = json_dumps(ContentOf(t)),
                              ![t].content = "str", ![t].own = <<>>]
    /\ UNCHANGED <<clients, defaults>>

\* headers = {} and the if statement signing content.
request_sign(t) ==
    /\ frame[t].pc = "dumped"
    /\ frame' = [frame EXCEPT ![t].pc = "signed",
                              ![t].headers = Headers(frame[t].self, frame[t].body)]
    /\ UNCHANGED <<clients, defaults>>

\* requests.post(url, headers=headers, data=content, timeout=5): the one
\* place a POST is issued. The exchange ends in a transport failure (post
\* raises), in a body that is no JSON, or in a JSON payload.
request_post_retrying(t) ==
    /\ frame[t].pc = "signed"
    /\ frame[t].posts < 2
    /\ \E r \in Outcomes(frame[t].api) :
         frame' = [frame EXCEPT
             ![t].pc = IF r.kind = "transport" /\ frame[t].posts = 0 THEN "signed" ELSE "posted",
             ![t].posts = @ + 1,
             ![t].sent = Some([url |-> ApiUrl, headers |-> frame[t].headers,
                               data |-> frame[t].body]),
             ![t].resp = r]
    /\ UNCHANGED <<clients, defaults>>

request_post(t) ==
    /\ frame[t].pc = "signed"
    /\ \E r \in Outcomes(frame[t].api) :
         frame' = [frame EXCEPT
             ![t].pc = "posted",
             ![t].posts = @ + 1,
             ![t].sent = Some([url |-> ApiUrl, headers |-> frame[t].headers,
                               data |-> frame[t].body]),
             ![t].resp = r]
    /\ UNCHANGED <<clients, defaults>>

\* return response.json(), and what the public operation makes of it: the
\* call ends, with a value or with the exception that unwinds it.
request_return(t) ==
    /\ frame[t].pc = "posted"
    /\ frame' = [frame EXCEPT
           ![t].pc = "returned",
           ![t].ret = OperationResult(frame[t].op, frame[t].args, request_result(frame[t].resp))]
    /\ UNCHANGED <<clients, defaults>>

\* The caller has the value (or the exception) of the call it made: nothing
\* of the call is left but what the program keeps outside its frames.
call_over(t) ==
    /\ frame[t].pc = "returned"
    /\ frame' = [frame EXCEPT ![t] = IdleFrame]
    /\ UNCHANGED <<clients, defaults>>

\* The steps of request.
RequestStep(t) ==
    \/ request_set_api(t)
    \/ request_set_nonce(t)
    \/ request_dumps(t)
    \/ request_sign(t)
    \/ request_post(t)
    \/ request_return(t)
    \/ call_over(t)

\* ------------------------------------------------------- the specifications

\* The public operations that make a request, and the builder.
PublicCall(t) ==
    \/ get_balance(t)
    \/ get_spot_instruments(t)
    \/ get_spot_inst_id(t)
    \/ get_inst_tick(t)
    \/ get_orderbook(t)
    \/ get_open_orders(t)
    \/ create_new_order(t)
    \/ submit_new_order(t)
    \/ submit_new_orders(t)
    \/ cancel_order(t)
    \/ cancel_orders(t)

\* One caller: every call runs to its end before the next one starts.
Next == PublicCall(MainThread) \/ RequestStep(MainThread)

Spec == Init /\ [][Next]_vars

\* A call that has started runs on: the interpreter keeps executing the
\* thread, and requests.post ends (timeout=5).
FairSpec == Spec /\ WF_vars(RequestStep(MainThread))

\* Calls made from several threads: the statements of request interleave.
ConcNext ==
    \E t \in Threads : get_balance(t) \/ get_inst_tick(t) \/ RequestStep(t)

ConcSpec == Init /\ [][ConcNext]_vars

\* ---------------------------------------------------------------- reading

\* The message a call has POSTed.
Posted(t) == frame[t].sent # None
Sent(t) == frame[t].sent[1]

\* An integer in [1, 4294967290]; 4294967290 = 65535 * 65536 + 65530.
InRandomRange(n) == BigLeq(Big(0, 1), n) /\ BigLeq(n, Big(65535, 65530))

\* The method name fixed for each public operation that dispatches.
MethodName(op) ==
    CASE op = "get_balance" -> "user_balance"
      [] op = "get_spot_instruments" -> "inst_list"
      [] op = "get_spot_inst_id" -> "inst_list"
      [] op = "get_inst_tick" -> "inst_tick"
      [] op = "get_orderbook" -> "inst_order_book"
      [] op = "get_open_orders" -> "user_open_orders"
      [] op = "submit_new_order" -> "new_order"
      [] op = "submit_new_orders" -> "new_orders"
      [] op = "cancel_order" -> "cancel_order"
      [] op = "cancel_orders" -> "cancel_orders"
      [] OTHER -> "no request"

\* float(s) of a fixed-point string, in the units of the float arguments.
DigitValue(c) == CHOOSE d \in 0..9 : DigitChars[d + 1] = c

RECURSIVE NumberOf(_)
NumberOf(ds) ==
    IF Len(ds) = 0 THEN 0
    ELSE 10 * NumberOf(SubSeq(ds, 1, Len(ds) - 1)) + DigitValue(ds[Len(ds)])

PointAt(s) == CHOOSE i \in 1..Len(s) : s[i] = "."
DigitsAfterPoint(s) == Len(s) - PointAt(s)
IsFixedPoint(s) ==
    /\ Cardinality({i \in 1..Len(s) : s[i] = "."}) = 1
    /\ PointAt(s) > 1
    /\ \A i \in 1..Len(s) : i # PointAt(s) => \E d \in 0..9 : DigitChars[d + 1] = s[i]
ParsedUnits(s) ==
    NumberOf(SelectSeq(s, LAMBDA c : c # ".")) * Pow10(InputDigits - DigitsAfterPoint(s))

\* The units of a float argument in one unit of the eighth decimal place.
UnitsPerPlace == Pow10(InputDigits - 8)
Distance(a, b) == IF a >= b THEN a - b ELSE b - a

\* ------------------------------------------------------------------ claims

\* C1: the body POSTed by a dispatching operation holds exactly one
\* `request` field, whose value is the method name fixed for the operation,
\* and exactly one `nonce` field, whose value is the integer in
\* [1, 4294967290] drawn for that call (calls made one after the other).
C1_BodyNamesOperationAndNonce ==
    \A t \in Threads :
        Posted(t) =>
            LET body == Sent(t).data IN
            /\ FieldCount(body, "request") = 1
            /\ FieldValues(body, "request") = {MethodName(frame[t].op)}
            /\ FieldCount(body, "nonce") = 1
            /\ \A n \in FieldValues(body, "nonce") :
                   InRandomRange(n) /\ Some(n) = frame[t].nonce

C1_Witness ==
    \E t \in Threads :
        /\ Posted(t)
        /\ frame[t].op = "get_balance"
        /\ frame[t].nonce = Some(Big(65535, 65530))
        /\ FieldValues(Sent(t).data, "request") = {"user_balance"}

\* C2: when user and api_key are both set, X-SIGNATURE is the HMAC-SHA256,
\* keyed by api_key, of exactly the string sent as the body of the same POST,
\* and X-USER is the client's user.
C2_SignatureOverTransmittedBody ==
    \A t \in Threads :
        (Posted(t) /\ frame[t].self.user # None /\ frame[t].self.api_key # None) =>
            /\ HasKey(Sent(t).headers, "X-SIGNATURE")
            /\ Get(Sent(t).headers, "X-SIGNATURE")
                 = [alg |-> "HMAC-SHA256", key |-> frame[t].self.api_key, msg |-> Sent(t).data]
            /\ HasKey(Sent(t).headers, "X-USER")
            /\ Get(Sent(t).headers, "X-USER") = frame[t].self.user

C2_Witness ==
    \E t \in Threads :
        /\ Posted(t)
        /\ frame[t].self = [user |-> Some("alice"), api_key |-> Some("k3y")]
        /\ frame[t].op = "submit_new_order"
        /\ Get(Sent(t).headers, "X-SIGNATURE").msg = Sent(t).data

\* C3: a dispatched request carries X-USER and X-SIGNATURE if and only if
\* user and api_key are both set; without credentials it is dispatched with
\* neither header, and no call ends without its POST (no local rejection).
C3_AuthHeadersIffCredentials ==
    \A t \in Threads :
        /\ Posted(t) =>
             LET both == frame[t].self.user # None /\ frame[t].self.api_key # None IN
             /\ HasKey(Sent(t).headers, "X-USER") <=> both
             /\ HasKey(Sent(t).headers, "X-SIGNATURE") <=> both
        /\ (frame[t].pc = "returned" /\ frame[t].op # "create_new_order") => Posted(t)

C3_Witness ==
    \E t \in Threads :
        /\ Posted(t)
        /\ frame[t].op = "get_balance"
        /\ frame[t].self = [user |-> Some("alice"), api_key |-> None]
        /\ Sent(t).headers = <<>>

\* The strings of a create_new_order call that has returned: qty, and price
\* when the order has one.
Built(t) == frame[t].pc = "returned" /\ frame[t].op = "create_new_order"
FormattedPairs(t) ==
    {<<frame[t].args.qty, Get(frame[t].ret.val, "qty")>>}
    \cup (IF HasKey(frame[t].ret.val, "price") /\ frame[t].args.price # None
          THEN {<<frame[t].args.price[1], Get(frame[t].ret.val, "price")>>}
          ELSE {})

\* C4, as claimed: the formatted string has exactly 8 digits after the
\* decimal point and parses back to the same numeric value.
C4_FormatRoundTrips ==
    \A t \in Threads :
        Built(t) =>
            \A p \in FormattedPairs(t) :
                /\ IsFixedPoint(p[2])
                /\ DigitsAfterPoint(p[2]) = 8
                /\ ParsedUnits(p[2]) = p[1]

\* C4, amended: the formatted string has exactly 8 digits after the decimal
\* point and parses back to the input rounded to 8 decimal places: a value
\* at most half a unit of the eighth place from the input, and the input
\* itself when it has no more than 8 decimal places.
C4_FormatRoundsToEightPlaces ==
    \A t \in Threads :
        Built(t) =>
            \A p \in FormattedPairs(t) :
                /\ IsFixedPoint(p[2])
                /\ DigitsAfterPoint(p[2]) = 8
                /\ 2 * Distance(ParsedUnits(p[2]), p[1]) <= UnitsPerPlace
                /\ (p[1] % UnitsPerPlace = 0) => ParsedUnits(p[2]) = p[1]

C4_Witness ==
    \E t \in Threads :
        /\ Built(t)
        /\ frame[t].args.qty % UnitsPerPlace # 0
        /\ ParsedUnits(Get(frame[t].ret.val, "qty")) # frame[t].args.qty
        /\ frame[t].args.price # None
        /\ HasKey(frame[t].ret.val, "price")
        /\ ParsedUnits(Get(frame[t].ret.val, "price")) = frame[t].args.price[1]

\* C5: create_new_order returns inst_id and side as given, qty formatted, a
\* price field if and only if a price is supplied (a price of 0 included),
\* and client_ord_id the supplied value (0 included), else a generated
\* integer in [1, 4294967290].
C5_OrderMatchesReference ==
    \A t \in Threads :
        Built(t) =>
            LET order == frame[t].ret.val
                a == frame[t].args
            IN
            /\ Keys(order) \subseteq {"inst_id", "side", "qty", "price", "client_ord_id"}
            /\ {"inst_id", "side", "qty", "client_ord_id"} \subseteq Keys(order)
            /\ Get(order, "inst_id") = a.inst_id
            /\ Get(order, "side") = a.side
            /\ DigitsAfterPoint(Get(order, "qty")) = 8
            /\ 2 * Distance(ParsedUnits(Get(order, "qty")), a.qty) <= UnitsPerPlace
            /\ HasKey(order, "price") <=> a.price # None
            /\ a.price # None =>
                 /\ DigitsAfterPoint(Get(order, "price")) = 8
                 /\ 2 * Distance(ParsedUnits(Get(order, "price")), a.price[1]) <= UnitsPerPlace
            /\ a.client_ord_id # None => Get(order, "client_ord_id") = a.client_ord_id[1]
            /\ a.client_ord_id = None => InRandomRange(Get(order, "client_ord_id"))

C5_Witness ==
    \E t \in Threads :
        /\ Built(t)
        /\ frame[t].args.price = Some(0)
        /\ frame[t].args.client_ord_id = Some(Big(0, 0))
        /\ frame[t].args.side = "sell"
        /\ HasKey(frame[t].ret.val, "price")
        /\ Get(frame[t].ret.val, "client_ord_id") = Big(0, 0)

\* C6: when the server answers with a well-formed payload that reports a
\* business error, the operation returns that payload unchanged and raises
\* nothing (get_open_orders, get_spot_instruments, get_spot_inst_id too).
C6_BusinessErrorPassedThrough ==
    \A t \in Threads :
        (/\ frame[t].pc = "returned"
         /\ frame[t].resp.kind = "json"
         /\ frame[t].resp.payload = BusinessError) =>
            /\ frame[t].ret.exc = "none"
            /\ frame[t].ret.val = BusinessError

\* The count of POSTs of C7: never more than one per call, exactly one once
\* the call is past requests.post, none for create_new_order; a failed POST
\* is the exception the call ends with.
C7_OnePostPerCall ==
    \A t \in Threads :
        /\ frame[t].posts <= 1
        /\ frame[t].pc \in {"posted", "returned"} =>
             frame[t].posts = (IF frame[t].op = "create_new_order" THEN 0 ELSE 1)
        /\ frame[t].op = "create_new_order" => ~Posted(t)
        /\ (frame[t].pc = "returned" /\ frame[t].resp.kind = "transport") =>
             frame[t].ret = [exc |-> "RequestException"]

\* A call that has started and not yet returned to its caller.
InCall(t) == frame[t].pc \notin {"idle", "returned"}

\* C7: at every moment a call has issued at most one POST (exactly one once
\* it is past requests.post, none for create_new_order), a failed POST ends
\* the call with the failure, and every call that has started returns.
C7_OnePostThenEnds ==
    /\ []C7_OnePostPerCall
    /\ \A t \in Threads : InCall(t) ~> (frame[t].pc = "returned")

C7_Witness ==
    \E t \in Threads :
        /\ frame[t].pc = "returned"
        /\ frame[t].op = "get_spot_inst_id"
        /\ frame[t].resp.kind = "transport"
        /\ frame[t].posts = 1
        /\ frame[t].ret.exc = "RequestException"

\* C8: under any interleaving of the steps of request run by two threads,
\* each call POSTs a body carrying its own `request` name and the nonce drawn
\* by that call, and a signature computed over that body.
C8_CallsDoNotInterfere ==
    \A t \in Threads :
        Posted(t) =>
            /\ FieldValues(Sent(t).data, "request") = {frame[t].api}
            /\ \A n \in FieldValues(Sent(t).data, "nonce") : Some(n) = frame[t].nonce
            /\ HasKey(Sent(t).headers, "X-SIGNATURE") =>
                 Get(Sent(t).headers, "X-SIGNATURE").msg = Sent(t).data

\* C9: the mapping into which request inserts `request` and `nonce` is new
\* for the call, never one an earlier call wrote, and once the call has
\* returned none of its envelope is stored anywhere.
C9_EnvelopeFreshAndNotRetained ==
    /\ \A t \in Threads : frame[t].pc = "entered" => ~HasKey(ContentOf(t), "request")
    /\ \A t \in Threads : frame[t].pc = "entered" => ~HasKey(ContentOf(t), "nonce")
    /\ (\A t \in Threads : ~InCall(t)) => defaults = <<>>

\* C10: from a response holding the SPOT mapping, get_spot_instruments(pair)
\* returns the instrument dict under the pair's key, get_spot_instruments()
\* the whole SPOT mapping, get_spot_inst_id(pair) the inst_id of that
\* instrument; each after exactly one inst_list request with sec_type SPOT.
C10_SpotInstrumentsSelected ==
    \A t \in Threads :
        (/\ frame[t].pc = "returned"
         /\ frame[t].op \in {"get_spot_instruments", "get_spot_inst_id"}) =>
            /\ frame[t].posts = 1
            /\ FieldValues(Sent(t).data, "request") = {"inst_list"}
            /\ FieldValues(Sent(t).data, "sec_type") = {"SPOT"}
            /\ (frame[t].resp.kind = "json" /\ "SPOT" \in DOMAIN frame[t].resp.payload) =>
                 LET spot == frame[t].resp.payload.SPOT
                     pair == frame[t].args.pair
                 IN  /\ frame[t].ret.exc = "none"
                     /\ (frame[t].op = "get_spot_instruments" /\ pair = None) =>
                          frame[t].ret.val = spot
                     /\ (frame[t].op = "get_spot_instruments" /\ pair # None) =>
                          /\ Len(spot[pair[1]]) = 1
                          /\ frame[t].ret.val = spot[pair[1]][1]
                     /\ frame[t].op = "get_spot_inst_id" =>
                          frame[t].ret.val = spot[pair[1]][1].inst_id

C10_Witness ==
    \E t \in Threads :
        /\ frame[t].pc = "returned"
        /\ frame[t].op = "get_spot_inst_id"
        /\ frame[t].args.pair = Some("BTCUSDT")
        /\ frame[t].resp.kind = "json"
        /\ "SPOT" \in DOMAIN frame[t].resp.payload
        /\ frame[t].ret = [exc |-> "none", val |-> 490590]

====
